---- MODULE Spec2Model ----
(***************************************************************************)
(* Model of tools/check_coverage.py, the JaCoCo coverage gate, and of the  *)
(* retry, model fallback and validation logic of                           *)
(* tools/vertex_generate_tests.py for one source file.                     *)
(*                                                                         *)
(* A report is the list of its <counter> elements in document order: the   *)
(* ones nested below a child of the root (package, class, method level)    *)
(* followed by the ones that are children of the root (report level).      *)
(* An attribute is absent, a decimal integer literal, or other text.       *)
(* Coverage percentages are floats in the code; here they are exact        *)
(* rationals [num, den] with den > 0, and a threshold is an integer number *)
(* of hundredths (80 is the command line's 0.80).                          *)
(***************************************************************************)
EXTENDS Integers, Sequences, FiniteSets, TLC

\* longest list of counters (nested and report level together) of a report
MaxNodes == 2

VARIABLES
    pc,             \* position in main(), or in the library harness
    args,           \* what parser.parse_args() made of the command line
    fileExists,     \* Path(args.xml_file).exists()
    doc,            \* the report the library harness parses
    threshold,      \* args.threshold, in hundredths
    metric,         \* args.metric
    verbose,        \* args.verbose
    totals,         \* the six accumulators of parse_jacoco_xml after its last call
    coverage_data,  \* what the last parse_jacoco_xml call returned
    first_data,     \* what the first parse_jacoco_xml call returned
    passed,         \* what the last check_coverage_threshold call returned
    parseCalls,     \* number of parse_jacoco_xml calls
    gateCalls,      \* number of check_coverage_threshold calls
    printed,        \* the kinds of message printed so far
    exitCode,       \* the process's exit status, NoExit while it runs
    gpc,            \* position in vertex_generate_tests.py, "off" while the gate runs
    max_retries,    \* args.max_retries
    retry_count,    \* retry_count of the __main__ loop
    generation_successful,  \* generation_successful of the __main__ loop
    genResults,     \* what the generate_tests calls returned, in call order
    model_idx,      \* position of the for loop of generate_tests in models_to_try
    tried,          \* the models try_generate_with_model was called with, per generate_tests call
    tryResults,     \* what those try_generate_with_model calls returned
    generated_code, \* generated_code of validate_and_fix_generated_code
    cleaned_code,   \* cleaned_code of validate_and_fix_generated_code
    attempt,        \* attempt of validate_and_fix_generated_code
    rounds,         \* clean/validate rounds run by the last validate_and_fix_generated_code call
    is_valid,       \* the flag validate_and_fix_generated_code returned
    test_file,      \* content of <class_name>Test.java, NoFile while there is none
    writes,         \* number of times the test file was written
    compile_success \* what compile_test_java returned last

gateVars == <<pc, args, fileExists, doc, threshold, metric, verbose, totals, coverage_data,
              first_data, passed, parseCalls, gateCalls, printed, exitCode>>

genVars == <<gpc, max_retries, retry_count, generation_successful, genResults, model_idx,
             tried, tryResults, generated_code, cleaned_code, attempt, rounds, is_valid,
             test_file, writes, compile_success>>

vars == <<gateVars, genVars>>

NoExit == 0 - 1

\* no test file on disk, no code in hand
NoFile == [exists |-> FALSE]

\* the test generator is not running
GenOff ==
    /\ gpc = "off"
    /\ max_retries = 0
    /\ retry_count = 0
    /\ generation_successful = FALSE
    /\ genResults = <<>>
    /\ model_idx = 0
    /\ tried = <<>>
    /\ tryResults = <<>>
    /\ generated_code = NoFile
    /\ cleaned_code = NoFile
    /\ attempt = 0
    /\ rounds = 0
    /\ is_valid = FALSE
    /\ test_file = NoFile
    /\ writes = 0
    /\ compile_success = FALSE

----------------------------------------------------------------------------
\* The inputs.

Absent == [kind |-> "absent", val |-> 0]
Text == [kind |-> "text", val |-> 0]
IntAttr(n) == [kind |-> "int", val |-> n]

\* the covered and missed attributes met; int() takes a negative literal too
CoveredValues == {Absent, Text, IntAttr(80)}
MissedValues == {Absent, IntAttr(0 - 20), IntAttr(20)}
\* counter.get('type'); "none" is a counter without a type attribute
CounterTypes == {"INSTRUCTION", "LINE", "BRANCH", "METHOD", "none"}
TrackedTypes == {"INSTRUCTION", "LINE", "BRANCH"}

Counters == [type : CounterTypes, covered : CoveredValues, missed : MissedValues]

Forms == {"xml", "malformed", "unreadable"}

\* A file: well-formed XML with the counters cs, the first k of them nested; or
\* text that is not well-formed XML; or something that cannot be read (a directory)
Doc(form, cs, k) ==
    [form |-> form, nested |-> SubSeq(cs, 1, k), top |-> SubSeq(cs, k + 1, Len(cs))]

MalformedDoc == Doc("malformed", <<>>, 0)
UnreadableDoc == Doc("unreadable", <<>>, 0)

Thresholds == {0 - 1, 0, 80, 81, 100, 150}
Metrics == {"line", "instruction", "branch"}

----------------------------------------------------------------------------
\* parse_jacoco_xml

ZeroTotals ==
    [instructions_covered |-> 0, instructions_missed |-> 0,
     lines_covered |-> 0, lines_missed |-> 0,
     branches_covered |-> 0, branches_missed |-> 0]

\* a function whose accumulators outlive the call
KeepCounters(prev) == prev

\* the accumulators are locals, set to 0 on every call whatever an earlier call left
InitCounters(prev) == ZeroTotals

\* root.findall('counter'): the children of the root alone
findallChildren(d) == d.top

\* root.findall('.//counter'): every counter below the root, in document order
findall(d) == d.nested \o d.top

\* int(counter.get(name)): no default, int(None) raises
IntOfNoDefault(a) ==
    IF a.kind = "int" THEN [ok |-> TRUE, val |-> a.val] ELSE [ok |-> FALSE, val |-> 0]

\* int(counter.get(name, 0)): the default 0 when absent, ValueError on other text
IntOf(a) ==
    CASE a.kind = "absent" -> [ok |-> TRUE, val |-> 0]
      [] a.kind = "int" -> [ok |-> TRUE, val |-> a.val]
      [] OTHER -> [ok |-> FALSE, val |-> 0]

\* the if/elif chain on counter_type
AddCounter(acc, type, covered, missed) ==
    CASE type = "INSTRUCTION" ->
            [acc EXCEPT !.instructions_covered = @ + covered,
                        !.instructions_missed = @ + missed]
      [] type = "LINE" ->
            [acc EXCEPT !.lines_covered = @ + covered, !.lines_missed = @ + missed]
      [] type = "BRANCH" ->
            [acc EXCEPT !.branches_covered = @ + covered, !.branches_missed = @ + missed]
      [] OTHER -> acc

\* the for loop: both attributes are converted before the type is looked at, and
\* a ValueError leaves the loop
RECURSIVE Accumulate(_, _)
Accumulate(cs, acc) ==
    IF cs = <<>> THEN [ok |-> TRUE, acc |-> acc]
    ELSE LET c == Head(cs)
             covered == IntOf(c.covered)
             missed == IntOf(c.missed)
         IN  IF ~covered.ok \/ ~missed.ok THEN [ok |-> FALSE, acc |-> acc]
             ELSE Accumulate(Tail(cs), AddCounter(acc, c.type, covered.val, missed.val))

\* (covered / total * 100) if total > 0 else 0, as an exact rational
Coverage(covered, total) ==
    IF total > 0 THEN [num |-> covered * 100, den |-> total] ELSE [num |-> 0, den |-> 1]

None == [ok |-> FALSE]

\* the dictionary returned
CoverageData(acc) ==
    LET instruction_total == acc.instructions_covered + acc.instructions_missed
        line_total == acc.lines_covered + acc.lines_missed
        branch_total == acc.branches_covered + acc.branches_missed
    IN  [ok |-> TRUE,
         instruction_coverage |-> Coverage(acc.instructions_covered, instruction_total),
         line_coverage |-> Coverage(acc.lines_covered, line_total),
         branch_coverage |-> Coverage(acc.branches_covered, branch_total),
         total_instructions |-> instruction_total,
         total_lines |-> line_total,
         total_branches |-> branch_total,
         covered_instructions |-> acc.instructions_covered,
         covered_lines |-> acc.lines_covered,
         covered_branches |-> acc.branches_covered]

\* the try block: ET.parse raises on a file that is not well-formed XML (ParseError)
\* or cannot be read (OSError) before the accumulators are set
RunCounters(d, prev) ==
    IF d.form # "xml" THEN [ok |-> FALSE, acc |-> prev]
    ELSE Accumulate(findall(d), InitCounters(prev))

\* the except clauses: what each prints
ParseMessages(d, prev) ==
    IF d.form = "malformed" THEN {"xml_parse_error"}
    ELSE IF ~RunCounters(d, prev).ok THEN {"read_error"}
    ELSE {}

\* except clauses that hand back an empty aggregate
parse_returns_zeros(d, prev) ==
    LET r == RunCounters(d, prev)
    IN  IF r.ok THEN CoverageData(r.acc) ELSE CoverageData(ZeroTotals)

parse_jacoco_xml(d, prev) ==
    LET r == RunCounters(d, prev)
    IN  IF r.ok THEN CoverageData(r.acc) ELSE None

\* one call on the file d: the value returned, the accumulators as the call leaves
\* them, and the messages it prints
ParseCall(d, prev) ==
    [data |-> parse_jacoco_xml(d, prev),
     totals |-> RunCounters(d, prev).acc,
     messages |-> ParseMessages(d, prev)]

\* the calls a fresh process can make, over every file of at most MaxNodes counters
ParseOutcomes ==
    UNION {UNION {{ParseCall(Doc("xml", cs, k), ZeroTotals) : cs \in [1..n -> Counters]} :
                      k \in 0..n} : n \in 0..MaxNodes}
        \cup {ParseCall(MalformedDoc, ZeroTotals), ParseCall(UnreadableDoc, ZeroTotals)}

----------------------------------------------------------------------------
\* check_coverage_threshold

ActualCoverage(data, m) ==
    CASE m = "line" -> data.line_coverage
      [] m = "instruction" -> data.instruction_coverage
      [] m = "branch" -> data.branch_coverage

\* actual_coverage > threshold_as_percent
ExceedsThreshold(actual, thr) == actual.num > thr * actual.den

\* actual_coverage >= threshold_as_percent, threshold_as_percent = threshold * 100
MeetsThreshold(actual, thr) == actual.num >= thr * actual.den

check_coverage_threshold(data, thr, m) ==
    IF m \notin Metrics THEN FALSE ELSE MeetsThreshold(ActualCoverage(data, m), thr)

\* the banner check_coverage_threshold prints
GateMessage(ok) == IF ok THEN "gate_passed" ELSE "gate_failed"

----------------------------------------------------------------------------
\* main()

Init ==
    /\ pc = "start"
    /\ args = "pending"
    /\ fileExists \in BOOLEAN
    /\ doc = UnreadableDoc
    /\ threshold = 0
    /\ metric = "line"
    /\ verbose = FALSE
    /\ totals = ZeroTotals
    /\ coverage_data = None
    /\ first_data = None
    /\ passed = FALSE
    /\ parseCalls = 0
    /\ gateCalls = 0
    /\ printed = {}
    /\ exitCode = NoExit
    /\ GenOff

\* parser.parse_args() on a command line it accepts
ParseArgs ==
    /\ pc = "start"
    /\ \E t \in Thresholds, m \in Metrics, v \in BOOLEAN :
          /\ threshold' = t
          /\ metric' = m
          /\ verbose' = v
    /\ args' = "accepted"
    /\ pc' = "validate"
    /\ UNCHANGED <<fileExists, doc, totals, coverage_data, first_data, passed,
                   parseCalls, gateCalls, printed, exitCode>>
    /\ UNCHANGED genVars

\* parser.parse_args() on a command line it rejects (an argument missing, a
\* threshold that is no float, a metric outside the choices): parser.error()
\* prints the usage and exits with status 2
ParseArgsError ==
    /\ pc = "start"
    /\ args' = "rejected"
    /\ pc' = "done"
    /\ printed' = printed \cup {"usage"}
    /\ exitCode' = 2
    /\ UNCHANGED <<fileExists, doc, threshold, metric, verbose, totals, coverage_data,
                   first_data, passed, parseCalls, gateCalls>>
    /\ UNCHANGED genVars

\* parser.parse_args() on -h: formatting the threshold's help text, which holds a
\* bare "%)", raises ValueError; nothing catches it and the interpreter exits with 1
ParseArgsHelp ==
    /\ pc = "start"
    /\ args' = "help"
    /\ pc' = "done"
    /\ printed' = printed \cup {"traceback"}
    /\ exitCode' = 1
    /\ UNCHANGED <<fileExists, doc, threshold, metric, verbose, totals, coverage_data,
                   first_data, passed, parseCalls, gateCalls>>
    /\ UNCHANGED genVars

\* 0.0 <= args.threshold alone
ThresholdNotNegative(t) == 0 <= t

\* 0.0 <= args.threshold <= 1.0
ValidThreshold(t) == 0 <= t /\ t <= 100

\* "Validate inputs"
Validate ==
    /\ pc = "validate"
    /\ IF ~fileExists
         THEN /\ printed' = printed \cup {"file_not_found"}
              /\ exitCode' = 1
              /\ pc' = "done"
         ELSE IF ~ValidThreshold(threshold)
         THEN /\ printed' = printed \cup {"threshold_range"}
              /\ exitCode' = 1
              /\ pc' = "done"
         ELSE /\ printed' = printed \cup {"analyzing"}
              /\ exitCode' = exitCode
              /\ pc' = "parse"
    /\ UNCHANGED <<args, fileExists, doc, threshold, metric, verbose, totals,
                   coverage_data, first_data, passed, parseCalls, gateCalls>>
    /\ UNCHANGED genVars

\* "Parse coverage data": the file is read here, whatever it holds by now; it is
\* the process's only call of parse_jacoco_xml
Parse ==
    /\ pc = "parse"
    /\ \E call \in ParseOutcomes :
          /\ coverage_data' = call.data
          /\ totals' = call.totals
          /\ printed' = printed \cup call.messages
                                \cup (IF call.data = None THEN {"parse_failed"} ELSE {})
    /\ exitCode' = IF coverage_data' = None THEN 1 ELSE exitCode
    /\ pc' = IF coverage_data' = None THEN "done" ELSE "report"
    /\ first_data' = IF parseCalls = 0 THEN coverage_data' ELSE first_data
    /\ parseCalls' = parseCalls + 1
    /\ UNCHANGED <<args, fileExists, doc, threshold, metric, verbose, passed, gateCalls>>
    /\ UNCHANGED genVars

\* some kind has counters
NoCounters(data) ==
    data.total_lines = 0 /\ data.total_instructions = 0 /\ data.total_branches = 0

\* coverage_data['total_lines'] == 0
NoLines(data) == data.total_lines = 0

\* if coverage_data['total_lines'] == 0, the flag forgotten
ShowReportWhenEmpty(v, data) == data.total_lines = 0

\* if args.verbose or coverage_data['total_lines'] == 0
ShowReport(v, data) == v \/ data.total_lines = 0

\* "Show coverage report" and "Check if any code was found"
Report ==
    /\ pc = "report"
    /\ LET shown == IF ShowReport(verbose, coverage_data)
                      THEN printed \cup {"report"} ELSE printed
       IN  IF NoLines(coverage_data)
             THEN /\ printed' = shown \cup {"no_coverage"}
                  /\ exitCode' = 1
                  /\ pc' = "done"
             ELSE /\ printed' = shown
                  /\ exitCode' = exitCode
                  /\ pc' = "gate"
    /\ UNCHANGED <<args, fileExists, doc, threshold, metric, verbose, totals,
                   coverage_data, first_data, passed, parseCalls, gateCalls>>
    /\ UNCHANGED genVars

\* return 1 if passed else 0
ExitStatusSwapped(ok) == IF ok THEN 1 ELSE 0

\* return 0 if passed else 1
ExitStatus(ok) == IF ok THEN 0 ELSE 1

\* "Check coverage threshold" and the return
Gate ==
    /\ pc = "gate"
    /\ passed' = check_coverage_threshold(coverage_data, threshold, metric)
    /\ gateCalls' = gateCalls + 1
    /\ printed' = printed \cup {GateMessage(passed')}
    /\ exitCode' = ExitStatus(passed')
    /\ pc' = "done"
    /\ UNCHANGED <<args, fileExists, doc, threshold, metric, verbose, totals,
                   coverage_data, first_data, parseCalls>>
    /\ UNCHANGED genVars

Next == ParseArgs \/ ParseArgsError \/ ParseArgsHelp \/ Validate \/ Parse \/ Report \/ Gate

Spec == Init /\ [][Next]_vars

----------------------------------------------------------------------------
\* The functions called as a library: parse_jacoco_xml on a report, then
\* check_coverage_threshold, then parse_jacoco_xml again on the same report.

LibInit ==
    /\ pc = "lib0"
    /\ args = "pending"
    /\ fileExists = TRUE
    /\ \E form \in Forms, n \in 0..MaxNodes :
          /\ form = "xml" \/ n = 0
          /\ \E cs \in [1..n -> Counters], k \in 0..n : doc = Doc(form, cs, k)
    /\ threshold = 0
    /\ metric = "line"
    /\ verbose = FALSE
    /\ totals = ZeroTotals
    /\ coverage_data = None
    /\ first_data = None
    /\ passed = FALSE
    /\ parseCalls = 0
    /\ gateCalls = 0
    /\ printed = {}
    /\ exitCode = NoExit
    /\ GenOff

LibParse ==
    /\ pc \in {"lib0", "lib1"}
    /\ pc' = IF pc = "lib0" THEN "lib1" ELSE "lib2"
    /\ coverage_data' = ParseCall(doc, totals).data
    /\ totals' = ParseCall(doc, totals).totals
    /\ printed' = printed \cup ParseCall(doc, totals).messages
    /\ first_data' = IF parseCalls = 0 THEN coverage_data' ELSE first_data
    /\ parseCalls' = parseCalls + 1
    /\ UNCHANGED <<args, fileExists, doc, threshold, metric, verbose, passed, gateCalls,
                   exitCode>>
    /\ UNCHANGED genVars

LibGate ==
    /\ pc = "lib1"
    /\ gateCalls = 0
    /\ coverage_data # None
    /\ \E t \in {x \in Thresholds : ValidThreshold(x)}, m \in Metrics :
          passed' = check_coverage_threshold(coverage_data, t, m)
    /\ gateCalls' = gateCalls + 1
    /\ printed' = printed \cup {GateMessage(passed')}
    /\ UNCHANGED <<pc, args, fileExists, doc, threshold, metric, verbose, totals,
                   coverage_data, first_data, parseCalls, exitCode>>
    /\ UNCHANGED genVars

LibNext == LibParse \/ LibGate

SpecLib == LibInit /\ [][LibNext]_vars

----------------------------------------------------------------------------
\* tools/vertex_generate_tests.py, processing of one source file.
\*
\* A generated text is described by what the script's regular expressions and
\* counts look at: whether it is wrapped in markdown fences or introductory
\* prose, whether it declares a class, interface or enum, how many opening and
\* closing braces it has, how many bodiless signatures "name();" it has,
\* whether code stands before the class declaration, whether it has a package
\* statement and whether it imports org.junit.jupiter.api.Test.

\* most braces of either kind, and most bodiless signatures, in a model's answer
MaxBraces == 1

\* largest --max_retries on the command line
MaxRetries == 2

Codes ==
    [wrapped : BOOLEAN, hasClass : BOOLEAN, open : 0..MaxBraces, close : 0..MaxBraces,
     stubs : 0..MaxBraces, outside : BOOLEAN, hasPackage : BOOLEAN,
     hasTestImport : BOOLEAN]

RetryValues == (0 - 1)..MaxRetries

\* validate_java_syntax: (is_valid, message)
validate_java_syntax(java_code) ==
    IF ~java_code.hasClass
      THEN [ok |-> FALSE, message |-> "no_declaration"]
      ELSE IF java_code.open # java_code.close
             THEN [ok |-> FALSE, message |-> "brace_mismatch"]
             ELSE IF java_code.outside
                    THEN [ok |-> FALSE, message |-> "code_outside_class"]
                    ELSE [ok |-> TRUE, message |-> "Valid"]

\* add_missing_imports: the standard imports go in after the package statement
add_missing_imports(java_code) ==
    IF java_code.hasPackage
      THEN [java_code EXCEPT !.hasTestImport = TRUE]
      ELSE java_code

\* fix_syntax_issues: every "name();" becomes "name() { ... }"
fix_syntax_issues(java_code) ==
    [java_code EXCEPT !.open = @ + java_code.stubs,
                      !.close = @ + java_code.stubs,
                      !.stubs = 0]

\* fix_common_issues
fix_common_issues(java_code) ==
    LET imported == IF ~java_code.hasTestImport
                      THEN add_missing_imports(java_code)
                      ELSE java_code
        closed == IF imported.open > imported.close
                    THEN [imported EXCEPT !.close = imported.open]
                    ELSE imported
    IN  fix_syntax_issues(closed)

\* clean_generated_code: the fences and the text before the first code line go
clean_generated_code(code_text) == [code_text EXCEPT !.wrapped = FALSE]

\* max_attempts=3 of validate_and_fix_generated_code
max_attempts == 3

models_to_try ==
    << "claude-sonnet-4@20250514", "gemini-2.5-pro", "gemini-2.5-flash",
       "gemini-2.0-flash-001", "gemini-2.0-flash-lite-001" >>

\* what requests.post and the reading of its response come to
Responses ==
    {"404", "403", "429", "http_error", "network_error", "no_candidates",
     "unexpected", "candidates"}

\* the coverage gate is not running
GateOff ==
    /\ pc = "off"
    /\ args = "pending"
    /\ fileExists = FALSE
    /\ doc = UnreadableDoc
    /\ threshold = 0
    /\ metric = "line"
    /\ verbose = FALSE
    /\ totals = ZeroTotals
    /\ coverage_data = None
    /\ first_data = None
    /\ passed = FALSE
    /\ parseCalls = 0
    /\ gateCalls = 0
    /\ printed = {}
    /\ exitCode = NoExit

\* a source file that was not skipped, before its retry loop
GenInit ==
    /\ GateOff
    /\ gpc = "retry"
    /\ max_retries \in RetryValues
    /\ retry_count = 0
    /\ generation_successful = FALSE
    /\ genResults = <<>>
    /\ model_idx = 0
    /\ tried = <<>>
    /\ tryResults = <<>>
    /\ generated_code = NoFile
    /\ cleaned_code = NoFile
    /\ attempt = 0
    /\ rounds = 0
    /\ is_valid = FALSE
    /\ test_file = NoFile
    /\ writes = 0
    /\ compile_success = FALSE

\* while retry_count < args.max_retries, whatever the last call returned
RetryWhileBudget(count, max, ok) == count < max

\* while retry_count < args.max_retries and not generation_successful
ShouldRetry(count, max, ok) == count < max /\ ~ok

\* the loop is entered: generate_tests is called and starts its for loop
CallGenerateTests ==
    /\ gpc = "retry"
    /\ ShouldRetry(retry_count, max_retries, generation_successful)
    /\ gpc' = "models"
    /\ model_idx' = 1
    /\ tried' = <<>>
    /\ tryResults' = <<>>
    /\ UNCHANGED <<max_retries, retry_count, generation_successful, genResults,
                   generated_code, cleaned_code, attempt, rounds, is_valid, test_file,
                   writes, compile_success>>
    /\ UNCHANGED gateVars

\* the loop is left: the file counts as successful or failed
FileDone ==
    /\ gpc = "retry"
    /\ ~ShouldRetry(retry_count, max_retries, generation_successful)
    /\ gpc' = "done"
    /\ UNCHANGED <<max_retries, retry_count, generation_successful, genResults,
                   model_idx, tried, tryResults, generated_code, cleaned_code, attempt,
                   rounds, is_valid, test_file, writes, compile_success>>
    /\ UNCHANGED gateVars

\* generate_tests returns result to the retry loop, which counts the call
ReturnFromGenerate(result) ==
    /\ genResults' = Append(genResults, result)
    /\ generation_successful' = result
    /\ retry_count' = retry_count + 1
    /\ gpc' = "retry"

\* try_generate_with_model returns result to the for loop of generate_tests
ReturnFromTry(result) ==
    /\ tryResults' = Append(tryResults, result)
    /\ IF result
         THEN /\ ReturnFromGenerate(TRUE)
              /\ UNCHANGED model_idx
         ELSE /\ gpc' = "models"
              /\ model_idx' = model_idx + 1
              /\ UNCHANGED <<genResults, generation_successful, retry_count>>

\* for model_id in models_to_try: try_generate_with_model is called
TryModel ==
    /\ gpc = "models"
    /\ model_idx <= Len(models_to_try)
    /\ tried' = Append(tried, models_to_try[model_idx])
    /\ gpc' = "post"
    /\ generated_code' = NoFile
    /\ cleaned_code' = NoFile
    /\ attempt' = 0
    /\ rounds' = 0
    /\ is_valid' = FALSE
    /\ UNCHANGED <<max_retries, retry_count, generation_successful, genResults,
                   model_idx, tryResults, test_file, writes, compile_success>>
    /\ UNCHANGED gateVars

\* the for loop is exhausted: "All models failed", return False
AllModelsFailed ==
    /\ gpc = "models"
    /\ model_idx > Len(models_to_try)
    /\ ReturnFromGenerate(FALSE)
    /\ UNCHANGED <<max_retries, model_idx, tried, tryResults, generated_code,
                   cleaned_code, attempt, rounds, is_valid, test_file, writes,
                   compile_success>>
    /\ UNCHANGED gateVars

\* requests.post comes back without usable candidates: status 404, 403 or 429,
\* raise_for_status or the network raising, an empty candidates list, or any
\* other exception while the response is read; each path returns False
PostFails ==
    /\ gpc = "post"
    /\ \E response \in Responses \ {"candidates"} : ReturnFromTry(FALSE)
    /\ UNCHANGED <<max_retries, tried, generated_code, cleaned_code, attempt, rounds,
                   is_valid, test_file, writes, compile_success>>
    /\ UNCHANGED gateVars

\* the response carries a candidate: validate_and_fix_generated_code is called
PostCandidates ==
    /\ gpc = "post"
    /\ \E text \in Codes : generated_code' = text
    /\ attempt' = 0
    /\ rounds' = 0
    /\ gpc' = "validate"
    /\ UNCHANGED <<max_retries, retry_count, generation_successful, genResults,
                   model_idx, tried, tryResults, cleaned_code, is_valid, test_file,
                   writes, compile_success>>
    /\ UNCHANGED gateVars

\* one pass of the for loop of validate_and_fix_generated_code
ValidateRound ==
    /\ gpc = "validate"
    /\ attempt < max_attempts
    /\ rounds' = rounds + 1
    /\ LET cleaned == clean_generated_code(generated_code)
       IN  IF validate_java_syntax(cleaned).ok
             THEN /\ cleaned_code' = cleaned
                  /\ is_valid' = TRUE
                  /\ gpc' = "validated"
                  /\ UNCHANGED <<generated_code, attempt>>
             ELSE /\ IF attempt < max_attempts - 1
                       THEN /\ cleaned_code' = fix_common_issues(cleaned)
                            /\ generated_code' = fix_common_issues(cleaned)
                       ELSE /\ cleaned_code' = cleaned
                            /\ UNCHANGED generated_code
                  /\ attempt' = attempt + 1
                  /\ UNCHANGED <<is_valid, gpc>>
    /\ UNCHANGED <<max_retries, retry_count, generation_successful, genResults,
                   model_idx, tried, tryResults, test_file, writes, compile_success>>
    /\ UNCHANGED gateVars

\* the for loop is exhausted: return cleaned_code, False
ValidateExhausted ==
    /\ gpc = "validate"
    /\ attempt >= max_attempts
    /\ is_valid' = FALSE
    /\ gpc' = "validated"
    /\ UNCHANGED <<max_retries, retry_count, generation_successful, genResults,
                   model_idx, tried, tryResults, generated_code, cleaned_code, attempt,
                   rounds, test_file, writes, compile_success>>
    /\ UNCHANGED gateVars

\* no code is turned away
RejectedNever(valid) == FALSE

\* if not is_valid
Rejected(valid) == ~valid

\* "Could not generate valid code", return False
RejectInvalid ==
    /\ gpc = "validated"
    /\ Rejected(is_valid)
    /\ ReturnFromTry(FALSE)
    /\ UNCHANGED <<max_retries, tried, generated_code, cleaned_code, attempt, rounds,
                   is_valid, test_file, writes, compile_success>>
    /\ UNCHANGED gateVars

\* os.makedirs, then open(test_file, "w") and f.write(validated_code)
WriteTestFile ==
    /\ gpc = "validated"
    /\ ~Rejected(is_valid)
    /\ test_file' = cleaned_code
    /\ writes' = writes + 1
    /\ gpc' = "compile"
    /\ UNCHANGED <<max_retries, retry_count, generation_successful, genResults,
                   model_idx, tried, tryResults, generated_code, cleaned_code, attempt,
                   rounds, is_valid, compile_success>>
    /\ UNCHANGED gateVars

\* os.makedirs or open raises: "Unexpected error", return False
WriteFails ==
    /\ gpc = "validated"
    /\ ~Rejected(is_valid)
    /\ ReturnFromTry(FALSE)
    /\ UNCHANGED <<max_retries, tried, generated_code, cleaned_code, attempt, rounds,
                   is_valid, test_file, writes, compile_success>>
    /\ UNCHANGED gateVars

\* compile_test_java, whose verdict is only printed, then return True
Compile ==
    /\ gpc = "compile"
    /\ compile_success' \in BOOLEAN
    /\ ReturnFromTry(TRUE)
    /\ UNCHANGED <<max_retries, tried, generated_code, cleaned_code, attempt, rounds,
                   is_valid, test_file, writes>>
    /\ UNCHANGED gateVars

GenNext ==
    \/ CallGenerateTests \/ FileDone \/ TryModel \/ AllModelsFailed
    \/ PostFails \/ PostCandidates \/ ValidateRound \/ ValidateExhausted
    \/ RejectInvalid \/ WriteTestFile \/ WriteFails \/ Compile

SpecGen == GenInit /\ [][GenNext]_vars

\* every statement of the script is followed by the next: requests.post and
\* javac run under a timeout and the sleeps are finite
SpecGenFair == SpecGen /\ WF_vars(GenNext)

----------------------------------------------------------------------------
\* What the claims are stated with.

GatePassed == gateCalls = 1 /\ passed

CoveredOf(data, m) ==
    CASE m = "line" -> data.covered_lines
      [] m = "instruction" -> data.covered_instructions
      [] m = "branch" -> data.covered_branches

TotalOf(data, m) ==
    CASE m = "line" -> data.total_lines
      [] m = "instruction" -> data.total_instructions
      [] m = "branch" -> data.total_branches

MetricOf(type) ==
    CASE type = "LINE" -> "line"
      [] type = "INSTRUCTION" -> "instruction"
      [] type = "BRANCH" -> "branch"

\* the value a present integer attribute has, 0 for one that is not there
AttrVal(a) == IF a.kind = "int" THEN a.val ELSE 0

\* the sums of an attribute over the first n counters of cs whose kind is type
RECURSIVE SumCovered(_, _, _)
SumCovered(cs, type, n) ==
    IF n = 0 THEN 0
    ELSE SumCovered(cs, type, n - 1)
            + (IF cs[n].type = type THEN AttrVal(cs[n].covered) ELSE 0)

RECURSIVE SumMissed(_, _, _)
SumMissed(cs, type, n) ==
    IF n = 0 THEN 0
    ELSE SumMissed(cs, type, n - 1)
            + (IF cs[n].type = type THEN AttrVal(cs[n].missed) ELSE 0)

\* over the whole document: the nested counters and the report-level ones
DocCovered(d, type) ==
    SumCovered(d.nested, type, Len(d.nested)) + SumCovered(d.top, type, Len(d.top))

DocMissed(d, type) ==
    SumMissed(d.nested, type, Len(d.nested)) + SumMissed(d.top, type, Len(d.top))

InUnitInterval(r) == 0 <= r.num /\ r.num <= 100 * r.den

NoTextIn(cs) == \A i \in 1..Len(cs) : cs[i].covered.kind # "text" /\ cs[i].missed.kind # "text"

IsTracked(c) == c.type \in TrackedTypes

WithoutUntracked(d) ==
    [form |-> d.form, nested |-> SelectSeq(d.nested, IsTracked),
     top |-> SelectSeq(d.top, IsTracked)]

ParseErrorPrinted == printed \cap {"xml_parse_error", "read_error"} # {}

----------------------------------------------------------------------------
\* C1, as stated: whenever main() has ended, the exit code is 0 or 1, and it is 0
\* exactly when the gate was evaluated and passed.
C1_ExitCodeZeroOrOne ==
    pc = "done" => exitCode \in {0, 1} /\ (exitCode = 0 <=> GatePassed)

\* C1, amended: on a command line argparse accepts (and on -h), main() ends with
\* exit code 0 exactly when the gate was evaluated and passed and with 1 otherwise;
\* on a command line argparse rejects it ends with exit code 2, before any
\* validation; while main() runs there is no exit code.
C1_ExitCodeByOutcome ==
    /\ pc # "done" => exitCode = NoExit
    /\ pc = "done" /\ args = "rejected" =>
          exitCode = 2 /\ parseCalls = 0 /\ gateCalls = 0
    /\ pc = "done" /\ args # "rejected" =>
          exitCode \in {0, 1} /\ (exitCode = 0 <=> GatePassed)

C1_Witness == pc = "done" /\ args = "accepted" /\ exitCode = 0 /\ GatePassed

\* C2: once the gate is evaluated, passed is TRUE exactly when the selected
\* metric's covered / (covered + missed) is at least the threshold, the ratio being
\* 0 when the denominator is not positive; covered 80, missed 20 passes at 0.80 and
\* fails at 0.81.
C2_PassedIffActualAtLeastThreshold ==
    gateCalls = 1 =>
        LET covered == CoveredOf(coverage_data, metric)
            total == TotalOf(coverage_data, metric)
        IN  /\ passed <=> IF total > 0 THEN covered * 100 >= threshold * total
                          ELSE 0 >= threshold
            /\ covered = 80 /\ total = 100 /\ threshold = 80 => passed
            /\ covered = 80 /\ total = 100 /\ threshold = 81 => ~passed

C2_Witness ==
    /\ gateCalls = 1
    /\ metric = "line"
    /\ coverage_data.covered_lines = 80
    /\ coverage_data.total_lines = 100
    /\ threshold = 80
    /\ passed

\* C3: when parse_jacoco_xml returns an aggregate, the covered total and the total
\* of each tracked kind are the sums of covered and of covered + missed over every
\* counter of that kind below the root, nested or not, each counted once per
\* occurrence.
C3_TotalsAreSumsOverAllCounters ==
    parseCalls >= 1 /\ coverage_data # None =>
        \A type \in TrackedTypes :
            /\ CoveredOf(coverage_data, MetricOf(type)) = DocCovered(doc, type)
            /\ TotalOf(coverage_data, MetricOf(type))
                  = DocCovered(doc, type) + DocMissed(doc, type)

C3_Witness ==
    /\ pc = "lib1"
    /\ coverage_data # None
    /\ Len(doc.nested) = 1 /\ doc.nested[1].type = "LINE"
    /\ Len(doc.top) = 1 /\ doc.top[1].type = "LINE"
    /\ coverage_data.covered_lines = 160
    /\ coverage_data.total_lines = 200

\* C4, as stated: in every aggregate parse_jacoco_xml returns, the coverage of each
\* tracked kind lies between 0 and 100 percent when covered + missed is positive
\* and is 0 when covered + missed is 0.
C4_CoverageInUnitInterval ==
    coverage_data # None =>
        \A m \in Metrics :
            /\ TotalOf(coverage_data, m) > 0 => InUnitInterval(ActualCoverage(coverage_data, m))
            /\ TotalOf(coverage_data, m) = 0 => ActualCoverage(coverage_data, m).num = 0

\* C5: when the report parses and its LINE total is zero, the gate is never
\* evaluated and main() ends with exit code 1 and the no-coverage diagnostic,
\* whatever the threshold and the metric.
C5_NoLinesExitsWithoutGate ==
    coverage_data # None /\ coverage_data.total_lines = 0 =>
        /\ gateCalls = 0
        /\ pc \in {"report", "done"}
        /\ pc = "done" => exitCode = 1 /\ "no_coverage" \in printed

C5_Witness ==
    /\ pc = "done"
    /\ coverage_data # None
    /\ coverage_data.total_lines = 0
    /\ coverage_data.total_instructions > 0
    /\ metric = "instruction"
    /\ threshold = 0
    /\ exitCode = 1

\* C6: on an accepted command line whose report path does not exist or whose
\* threshold is outside [0.0, 1.0], parse_jacoco_xml is never called and main()
\* ends with exit code 1 and the usage message of the failed validation.
C6_InvalidInputNeverParsed ==
    args = "accepted" /\ (~fileExists \/ threshold < 0 \/ threshold > 100) =>
        /\ parseCalls = 0
        /\ gateCalls = 0
        /\ pc \in {"validate", "done"}
        /\ pc = "done" =>
              /\ exitCode = 1
              /\ printed = {IF ~fileExists THEN "file_not_found" ELSE "threshold_range"}

C6_Witness ==
    /\ pc = "done"
    /\ args = "accepted"
    /\ fileExists
    /\ threshold = 150
    /\ parseCalls = 0
    /\ exitCode = 1

\* C7: when parse_jacoco_xml could not parse the report (one of its except clauses
\* ran), it returned None after a single call, the gate is not evaluated and main()
\* has ended with exit code 1; and it returns None in no other case.
C7_ParseFailureIsTerminal ==
    /\ ParseErrorPrinted =>
          /\ coverage_data = None
          /\ parseCalls = 1
          /\ gateCalls = 0
          /\ pc = "done"
          /\ exitCode = 1
          /\ "parse_failed" \in printed
    /\ parseCalls >= 1 /\ coverage_data = None => ParseErrorPrinted

C7_Witness ==
    /\ pc = "done"
    /\ "read_error" \in printed
    /\ coverage_data = None
    /\ parseCalls = 1
    /\ exitCode = 1

\* C8, as stated: counters of a kind other than INSTRUCTION, LINE and BRANCH change
\* nothing: the result of parsing a report is the result of parsing it with those
\* counters removed, whatever their covered and missed attributes hold.
C8_UntrackedCountersIgnored ==
    parseCalls >= 1 => coverage_data = parse_jacoco_xml(WithoutUntracked(doc), ZeroTotals)

\* C9: in a well-formed report whose covered and missed attributes are integers
\* where present, parsing succeeds, and per tracked kind the covered total is the
\* sum of the covered attributes that are present and the missed total the sum of
\* the missed attributes that are present: an absent attribute adds 0 and the
\* counter's other attribute is still added.
C9_AbsentAttributeCountsZero ==
    parseCalls >= 1 /\ doc.form = "xml" /\ NoTextIn(doc.nested) /\ NoTextIn(doc.top) =>
        /\ coverage_data # None
        /\ \A type \in TrackedTypes :
              /\ CoveredOf(coverage_data, MetricOf(type)) = DocCovered(doc, type)
              /\ TotalOf(coverage_data, MetricOf(type))
                    - CoveredOf(coverage_data, MetricOf(type)) = DocMissed(doc, type)

C9_Witness ==
    /\ pc = "lib1"
    /\ doc.form = "xml"
    /\ doc.nested = <<[type |-> "LINE", covered |-> Absent, missed |-> IntAttr(20)]>>
    /\ doc.top = <<[type |-> "LINE", covered |-> IntAttr(80), missed |-> Absent]>>
    /\ coverage_data # None
    /\ coverage_data.covered_lines = 80
    /\ coverage_data.total_lines = 100

\* C10: the second parse of an unchanged report returns what the first returned,
\* whether or not a gate evaluation came between them, and a gate evaluation leaves
\* the aggregate as parse_jacoco_xml returned it.
C10_SecondParseEqualsFirst ==
    /\ pc = "lib2" => coverage_data = first_data
    /\ pc = "lib1" => coverage_data = first_data

C10_Witness ==
    /\ pc = "lib2"
    /\ parseCalls = 2
    /\ gateCalls = 1
    /\ coverage_data # None
    /\ coverage_data.total_lines = 100
    /\ coverage_data = first_data

\* the run got a parsed report and went through "Show coverage report"
ReportStepDone == coverage_data # None /\ pc \in {"gate", "done"}

GateFailed == gateCalls = 1 /\ ~passed

----------------------------------------------------------------------------
\* number of generate_tests calls made so far, the running one included
GenCalls == Len(genResults) + (IF gpc \in {"retry", "done"} THEN 0 ELSE 1)

\* generate_tests has returned and has not been called again
GenerateReturned == gpc \in {"retry", "done"} /\ genResults # <<>>

\* try_generate_with_model was called with the models in list order, one at a
\* time, and with none after one that succeeded
TriedInListOrder ==
    /\ Len(tried) <= Len(models_to_try)
    /\ \A i \in 1..Len(tried) : tried[i] = models_to_try[i]
    /\ Len(tryResults) \in {Len(tried), Len(tried) - 1}
    /\ \A i \in 1..Len(tryResults) : tryResults[i] => i = Len(tried)

\* True is returned for a model that succeeded, False only when every model of
\* the list was tried once and failed
GenerateResultByModels ==
    GenerateReturned =>
        LET result == genResults[Len(genResults)]
        IN  /\ result => tryResults # <<>> /\ tryResults[Len(tryResults)]
            /\ ~result => /\ tried = models_to_try
                          /\ Len(tryResults) = Len(models_to_try)
                          /\ \A i \in 1..Len(tryResults) : ~tryResults[i]

\* no call beyond the max_retries-th, and none after a call that returned True
RetriesBounded ==
    /\ GenCalls > 0 => GenCalls <= max_retries
    /\ retry_count = Len(genResults)
    /\ \A i \in 1..Len(genResults) : genResults[i] => i = GenCalls

\* C12: generate_tests calls the models of its list in list order, one at a
\* time, stops at the first that succeeds and returns True, and returns False
\* only after every model was tried once and failed; the retry loop calls
\* generate_tests at most max_retries times, never after a success, and the
\* processing of the file terminates.
C12_OrderedFallbackAndBoundedRetries ==
    /\ [](TriedInListOrder /\ GenerateResultByModels /\ RetriesBounded)
    /\ <>(gpc = "done")

\* the first call failed on all five models, the second succeeded on the second
C12_Witness ==
    /\ gpc = "done"
    /\ genResults = <<FALSE, TRUE>>
    /\ tryResults = <<FALSE, TRUE>>
    /\ generation_successful

\* validate_and_fix_generated_code has returned to try_generate_with_model
ValidateReturned == gpc = "validated"

\* at most max_attempts rounds; True only with code validate_java_syntax
\* accepts, False only after the last round failed on the returned code
ValidateResult ==
    /\ rounds <= max_attempts
    /\ ValidateReturned /\ is_valid =>
          /\ validate_java_syntax(cleaned_code).ok
          /\ cleaned_code = clean_generated_code(generated_code)
    /\ ValidateReturned /\ ~is_valid =>
          /\ rounds = max_attempts
          /\ ~validate_java_syntax(cleaned_code).ok

\* the file holds nothing but the code that was returned with True
WrittenCodeIsValid ==
    test_file # NoFile =>
        /\ is_valid
        /\ test_file = cleaned_code
        /\ validate_java_syntax(test_file).ok

\* True is returned only with valid code written, and once the file is written
\* and compile_test_java is over the result is True whatever javac said
TryResultByValidity ==
    /\ \A i \in 1..Len(tryResults) : tryResults[i] => is_valid /\ writes > 0
    /\ writes > 0 /\ gpc # "compile" =>
          tryResults # <<>> /\ tryResults[Len(tryResults)]

====
